---- MODULE Spec2Model ----
(***************************************************************************)
(* Bounded crawl and defensive extraction of the Steelpush scanners.       *)
(*                                                                         *)
(* Five scanner variants are modelled, one per behaviour, selected by the  *)
(* variable "variant":                                                     *)
(*   enhanced  - scanWebsiteWithEnhancedMcp (scanner/enhanced-mcp-scanner) *)
(*   multiturn - scanWebsiteWithMcp, multi-turn version (unnamed/part_017) *)
(*   standard  - scanWebsite / recursive scanPage (scanner/website-scanner)*)
(*   mini      - scanWebsiteMini (analyze-usetrag-mini.ts)                 *)
(*   direct    - scanWebsiteWithDirectMcp (scanner/direct-mcp-scanner)     *)
(*                                                                         *)
(* Agent text is a sequence of tokens; a record field holding "" stands    *)
(* for a field that is missing or empty (the code only tests truthiness).  *)
(* Wall-clock time is in milliseconds, read at a few representative points.*)
(***************************************************************************)
EXTENDS Integers, Sequences, FiniteSets, TLC

VARIABLES
  variant,                  \* which scanner function is running
  pc,                       \* position inside the scanner function
  elapsed,                  \* Date.now() - startTime, in milliseconds
  maxPages, maxDepth,       \* options of the scan
  visitedPages,             \* visitedPages: string[]
  contentItems,             \* contentItems: WebsiteContent[]
  pagesToVisit,             \* enhanced: frontier {url, depth}[]
  pagesAnalyzed,            \* enhanced: pagesAnalyzed counter
  nextPage,                 \* enhanced: entry taken by the last shift()
  navAttempts,              \* page.goto attempts for the current entry, in order
  conversationHistory,      \* multiturn: {role, content}[]
  turnCount,                \* multiturn: turnCount
  explorationComplete,      \* multiturn: explorationComplete
  currentUrl,               \* multiturn: currentUrl pointer
  optimizationOpportunities,\* multiturn: records aggregated over the turns
  stack,                    \* standard: call stack of scanPage
  dequeued,                 \* log: frontier entries taken by shift()
  thrownBy,                 \* reason the scan function rejected, "" if it did not
  metadata,                 \* metadata of the returned WebsiteScanResult
  result,                   \* result of agent.generate in the current iteration
  engineCalls,              \* multiturn log: number of agent.generate calls
  submitted,                \* multiturn log: validConversation of the last call
  responseText,                \* extraction: the response text given to an extractor
  extracted,                \* extraction: the records the extractor returned
  extractor,                \* extraction: which extractor ran, "" if none has
  outstanding,              \* enhanced log: agent.generate calls not yet settled
  analysedPages,            \* enhanced log: page URLs given to agent.generate
  teardown                  \* log: "disconnect" and "close" calls, in order

vars == <<variant, pc, elapsed, maxPages, maxDepth, visitedPages, contentItems,
          pagesToVisit, pagesAnalyzed, nextPage, navAttempts,
          conversationHistory, turnCount, explorationComplete, currentUrl,
          optimizationOpportunities, stack, dequeued, thrownBy, metadata,
          result, engineCalls, submitted, responseText, extracted, extractor,
          outstanding, analysedPages, teardown>>

(* what no scanner action writes: the options, and the extraction variables *)
optVars == <<variant, maxPages, maxDepth, responseText, extracted, extractor>>
auxVars == <<metadata, result, engineCalls, submitted>>
logVars == <<outstanding, analysedPages, teardown>>
enhVars == <<pagesToVisit, pagesAnalyzed, nextPage, navAttempts, dequeued>>
mtVars  == <<conversationHistory, turnCount, explorationComplete, currentUrl,
             optimizationOpportunities>>

----------------------------------------------------------------------------
(* Bounds of the model *)

MaxPagesBound == 2      \* maxPages ranges over 1..MaxPagesBound
MaxRecords == 2         \* a fenced array holds 0..MaxRecords records
MaxDepthBound == 1      \* maxDepth ranges over 0..MaxDepthBound

(* Program constants *)

timeout == 180000
MAX_EXECUTION_TIME == 180000
MAX_TURNS == 2
EnoughOpportunities == 10

(* Readings of the clock: the start, and just before, at and just after    *)
(* the overall timeouts                                                    *)
TimePoints ==
  {0, timeout - 1, timeout, timeout + 1,
   MAX_EXECUTION_TIME - 1, MAX_EXECUTION_TIME, MAX_EXECUTION_TIME + 1}

----------------------------------------------------------------------------
(* URLs *)

SeedUrl == "https://a.test/"
UrlB    == "https://a.test/b"
UrlX    == "https://x.test/"
Urls    == {SeedUrl, UrlB, UrlX}

(* Sequence helpers *)

Includes(s, x) == \E i \in 1..Len(s) : s[i] = x

IsPrefix(s, t) == Len(s) <= Len(t) /\ \A i \in 1..Len(s) : s[i] = t[i]

NoDuplicates(s) == \A i, j \in 1..Len(s) : s[i] = s[j] => i = j

----------------------------------------------------------------------------
(* WebsiteContent records *)

Item(u, t, c, l, i, o) ==
  [url |-> u, type |-> t, content |-> c, location |-> l,
   importance |-> i, optimizationPotential |-> o]

Levels == {"high", "medium", "low"}

NoItem == Item("", "", "", "", "", "")

(* A record as the agent wrote it, in full *)
FullItem == Item(UrlB, "cta", "Buy now", "hero section", "high", "low")

(* A record with no url, type or location and an importance outside the enum *)
PartialItem == Item("", "", "Sign up", "", "critical", "")

(* A JSON object that is not a content record: only an importance key *)
ForeignItem == Item("", "", "", "", "low", "")

----------------------------------------------------------------------------
(* Agent text as tokens.                                                   *)
(*   fence  ``` (with an optional json tag)                                *)
(*   lbr    [          rbr  ]                                              *)
(*   obj    a well-formed JSON object literal with the fields of v         *)
(*   junk   text that is not JSON                                          *)
(*   prose  a paragraph of prose longer than 10 characters, no keywords    *)
(*   short  a paragraph of at most 10 characters                           *)
(*   numhead  the paragraph "1. Headline: ..." with issue/recommendation   *)
(*   err    the paragraph "error" (at most 10 characters)                  *)
(*   ws     white space only                                               *)
(* Paragraph tokens are separated by blank lines.                          *)

Tok(kind) == [k |-> kind, v |-> NoItem]
Obj(item) == [k |-> "obj", v |-> item]

T_EMPTY       == <<>>
T_WS          == <<Tok("ws")>>
T_PROSE       == <<Tok("prose")>>
T_SHORT       == <<Tok("short")>>
T_ERR         == <<Tok("err")>>
T_NUMHEAD     == <<Tok("prose"), Tok("numhead")>>
T_FENCED      == <<Tok("prose"), Tok("fence"), Tok("lbr"), Obj(FullItem),
                   Tok("rbr"), Tok("fence")>>
T_FENCED_PART == <<Tok("fence"), Tok("lbr"), Obj(PartialItem), Tok("rbr"),
                   Tok("fence")>>
T_FENCED_BAD  == <<Tok("fence"), Tok("junk"), Tok("fence"), Tok("lbr"),
                   Obj(FullItem), Tok("rbr")>>
T_NUMHEAD_FIRST == <<Tok("numhead")>>
T_RAW         == <<Tok("lbr"), Obj(PartialItem), Tok("rbr"), Tok("prose")>>
T_PROSE_RAW   == <<Tok("prose"), Tok("lbr"), Obj(FullItem), Tok("rbr")>>
T_OBJECTS     == <<Tok("prose"), Obj(FullItem), Tok("prose"), Obj(ForeignItem)>>

(* a fenced array of as many records as end the exploration at once *)
T_MANY == <<Tok("fence")>> \o <<Tok("lbr")>> \o
          [i \in 1..EnoughOpportunities |-> Obj(FullItem)] \o
          <<Tok("rbr"), Tok("fence")>>

Texts == {T_EMPTY, T_WS, T_PROSE, T_SHORT, T_ERR, T_NUMHEAD, T_FENCED, T_FENCED_PART,
          T_FENCED_BAD, T_RAW, T_PROSE_RAW, T_OBJECTS}

IsBlank_EmptyOnly(text) == text = <<>>

(* String.prototype.trim() on the text leaves nothing *)
IsBlank(text) == \A i \in 1..Len(text) : text[i].k = "ws"

(* JSON.parse: the text is a JSON array exactly when it is [ obj, ..., obj ] *)
ParsesAsArray(toks) ==
  /\ Len(toks) >= 2
  /\ toks[1].k = "lbr"
  /\ toks[Len(toks)].k = "rbr"
  /\ \A i \in 2..(Len(toks) - 1) : toks[i].k = "obj"

ParsedItems(toks) == [i \in 1..(Len(toks) - 2) |-> toks[i + 1].v]

(* /```(?:json)?\s*([\s\S]*?)\s*```/ : the first fence and the next one *)
FencePositions(text) == {i \in 1..Len(text) : text[i].k = "fence"}

Min(S) == CHOOSE m \in S : \A n \in S : m <= n

HasCodeBlock(text) == Cardinality(FencePositions(text)) >= 2

CodeBlockBody(text) ==
  LET open  == Min(FencePositions(text))
      close == Min(FencePositions(text) \ {open})
  IN  SubSeq(text, open + 1, close - 1)

(* /\[\s*\{\s*"[^"]+"\s*:/ : a [ directly followed by an object *)
ArrayStarts(text) ==
  {i \in 1..(Len(text) - 1) : text[i].k = "lbr" /\ text[i + 1].k = "obj"}

HasArrayStart(text) == ArrayStarts(text) # {}

(* a record whose content string holds an opening bracket *)
BracketItem == Item(UrlB, "cta", "[Buy", "hero section", "high", "low")

(* what the characters of one token add to bracketCount: the loop counts    *)
(* every [ and ] it reads, those inside a string value included             *)
BracketDelta(t) ==
  IF t.k = "lbr" THEN 1
  ELSE IF t.k = "rbr" THEN -1
  ELSE IF t.k = "obj" /\ t.v.content = "[Buy" THEN 1
  ELSE 0

(* bracketCount after the tokens from..i have been read *)
RECURSIVE BracketCount(_, _, _)
BracketCount(text, from, i) ==
  IF i < from THEN 0
  ELSE BracketCount(text, from, i - 1) + BracketDelta(text[i])

(* position of the bracket that brings bracketCount back to 0, 0 if none *)
MatchingClose(text, from) ==
  LET closes == {i \in (from + 1)..Len(text) : BracketCount(text, from, i) = 0}
  IN  IF closes = {} THEN 0 ELSE Min(closes)

(* item.content || item.type || item.location *)
IsContentItem(item) ==
  item.content # "" \/ item.type # "" \/ item.location # ""

(* number of keys the object literal carries *)
KeyCount(item) ==
  Cardinality({f \in DOMAIN item : item[f] # ""})

(* /\{\s*"(?:type|url|content)"\s*:\s*"[^"]+"\s*,[\s\S]*?\}/g : the literal's *)
(* first key (keys are written in schema order) is url, type or content and *)
(* another key follows it                                                   *)
MatchesObjectRegex(item) ==
  /\ (item.url # "" \/ item.type # "" \/ item.content # "")
  /\ KeyCount(item) >= 2

BackfillUrl(items, u) ==
  [i \in 1..Len(items) |->
     [items[i] EXCEPT !.url = IF items[i].url # "" THEN items[i].url ELSE u]]

(* extractJsonFromResponse of the multi-turn scanner *)
extractJsonFromResponse(response) ==
  LET valid(items) == SelectSeq(items, IsContentItem)
      body  == CodeBlockBody(response)
      start == Min(ArrayStarts(response))
      close == MatchingClose(response, start)
      raw   == IF close = 0 THEN <<>> ELSE SubSeq(response, start, close)
      objs  == SelectSeq(response,
                 LAMBDA t : t.k = "obj" /\ MatchesObjectRegex(t.v)
                                        /\ IsContentItem(t.v))
  IN  IF IsBlank(response) THEN <<>>
      ELSE IF HasCodeBlock(response) /\ ~IsBlank(body) /\ ParsesAsArray(body)
        THEN valid(ParsedItems(body))
      ELSE IF HasArrayStart(response) /\ ParsesAsArray(raw)
        THEN valid(ParsedItems(raw))
      ELSE [i \in 1..Len(objs) |-> objs[i].v]

(* tryExtractStructuredContent of the enhanced scanner: one record per      *)
(* paragraph longer than 10 characters                                      *)
IsLongParagraph(t) == t.k \in {"prose", "numhead", "junk", "obj"}

(* the record pushed for one paragraph.  A numbered line loses its number   *)
(* to itemMatch[2] before the type patterns run, so the first pattern,      *)
(* which needs the number, does not match it and the type stays 'text'     *)
HeuristicItem(t, pageUrl) ==
  Item(pageUrl,
       "text",
       "snippet",
       IF t.k = "obj" /\ t.v.location = "hero section"
         THEN "hero section" ELSE "page",
       "medium", "medium")

tryExtractStructuredContent(text, pageUrl) ==
  LET paras == SelectSeq(text, IsLongParagraph)
  IN  [i \in 1..Len(paras) |-> HeuristicItem(paras[i], pageUrl)]

(* result.text.includes("error") || result.text.includes("issue") *)
MentionsError(text) == \E i \in 1..Len(text) : text[i].k \in {"err", "numhead"}

GenericItem(pageUrl) ==
  Item(pageUrl, "general", "snippet", "page", "medium", "medium")

(* "Process content findings" of the enhanced scanner: the records pushed   *)
(* onto contentItems for one response text.  The raw-array branch counts    *)
(* brackets from the first character of the text, so it finds the array     *)
(* only when the text begins with it.                                       *)
EnhancedFindings(text, pageUrl) ==
  LET body  == CodeBlockBody(text)
      close == MatchingClose(text, 1)
      raw   == IF text[1].k = "lbr" /\ close # 0
                 THEN SubSeq(text, 1, close) ELSE <<>>
      found == tryExtractStructuredContent(text, pageUrl)
  IN  IF text = <<>> THEN <<>>
      ELSE IF HasCodeBlock(text)
        THEN IF ParsesAsArray(body)
               THEN BackfillUrl(ParsedItems(body), pageUrl) ELSE <<>>
      ELSE IF HasArrayStart(text)
        THEN IF ParsesAsArray(raw)
               THEN BackfillUrl(ParsedItems(raw), pageUrl) ELSE <<>>
      ELSE IF found # <<>> THEN found
      ELSE IF ~MentionsError(text) THEN <<GenericItem(pageUrl)>>
      ELSE <<>>

ErrorItem(pageUrl, level) ==
  Item(pageUrl, "error", "analysis failed", "general", level, level)

(* contentItems.push({... type: "error" ...}) *)
WithErrorItem_Reset(items, pageUrl, level) == <<ErrorItem(pageUrl, level)>>

WithErrorItem(items, pageUrl, level) ==
  Append(items, ErrorItem(pageUrl, level))

AnalysisErrorItem_Untyped(pageUrl, message) ==
  Item("", "text", message, "general", "medium", "medium")

(* the record of the analysis catch: its content carries error.message,     *)
(* which tells the timer's rejection from a rejection of agent.generate     *)
AnalysisErrorItem(pageUrl, message) ==
  Item(pageUrl, "error", message, "general", "medium", "medium")

FeedbackItem(u) ==
  Item(u, "feedback",
       "Analysis completed but no structured results were generated",
       "general", "medium", "medium")

----------------------------------------------------------------------------
(* Tool-invocation records of an agent response *)

Call(name, u, failed) == [toolName |-> name, url |-> u, error |-> failed]

TC_NONE     == <<>>
TC_SHOT     == <<Call("browser_take_screenshot", "", FALSE)>>
TC_CLICK    == <<Call("browser_click", "", FALSE)>>
TC_NAV_B    == <<Call("browser_navigate", UrlB, FALSE)>>
TC_NAV_X    == <<Call("browser_navigate", UrlX, FALSE)>>
TC_NAV_SEED == <<Call("browser_navigate", SeedUrl, FALSE)>>
TC_NAV_BX   == <<Call("browser_navigate", UrlB, FALSE),
                 Call("browser_navigate", UrlX, FALSE)>>
TC_NAV_NONE == <<Call("browser_navigate", "", FALSE)>>
TC_FAILED   == <<Call("browser_navigate", UrlB, TRUE)>>

ToolCallSeqs == {TC_NONE, TC_SHOT, TC_CLICK, TC_NAV_B, TC_NAV_X, TC_NAV_SEED,
                 TC_NAV_BX, TC_NAV_NONE, TC_FAILED}

Variants == {"enhanced", "multiturn", "standard", "mini", "direct"}

(* the value agent.generate resolved with; settled is FALSE while there is none *)
NoResult == [settled |-> FALSE, text |-> <<>>, toolCalls |-> <<>>]

Result(text, calls) == [settled |-> TRUE, text |-> text, toolCalls |-> calls]

(* metadata: { pageCount: visitedPages.length, contentCount: contentItems.length } *)
NoMetadata == [pageCount |-> 0, contentCount |-> 0]

Metadata_Analysed(pages, items) ==
  [pageCount |-> pagesAnalyzed, contentCount |-> Len(items)]

Metadata(pages, items) ==
  [pageCount |-> Len(pages), contentCount |-> Len(items)]

(* Date.now() read after an await: the clock has not gone back *)
Later == {t \in TimePoints : t >= elapsed}

----------------------------------------------------------------------------
(* Start of a scan: state variables as declared by the scanner functions *)

(* the state in which scanner v starts with the options pages and depth *)
ScanStart(v, pages, depth) ==
  /\ variant = v
  /\ maxPages = pages
  /\ maxDepth = depth
  /\ pc = "launch"
  /\ elapsed = 0
  /\ visitedPages = IF variant \in {"mini", "direct"} THEN <<SeedUrl>> ELSE <<>>
  /\ contentItems = <<>>
  /\ pagesToVisit = <<[url |-> SeedUrl, depth |-> 0]>>
  /\ pagesAnalyzed = 0
  /\ nextPage = [url |-> "", depth |-> 0]
  /\ navAttempts = <<>>
  /\ conversationHistory = <<>>
  /\ turnCount = 0
  /\ explorationComplete = FALSE
  /\ currentUrl = ""
  /\ optimizationOpportunities = <<>>
  /\ stack = <<>>
  /\ dequeued = <<>>
  /\ thrownBy = ""
  /\ metadata = NoMetadata
  /\ result = NoResult
  /\ engineCalls = 0
  /\ submitted = <<>>
  /\ outstanding = 0
  /\ analysedPages = <<>>
  /\ teardown = <<>>
  /\ responseText = <<>>
  /\ extracted = <<>>
  /\ extractor = ""

Init ==
  \E v \in Variants :
    \E pages \in (IF v \in {"enhanced", "standard"}
                    THEN 1..MaxPagesBound ELSE {1}),
       depth \in (IF v = "enhanced" THEN 0..MaxDepthBound ELSE {0}) :
      ScanStart(v, pages, depth)

(* the finally block: browser.close() once the error leaves the try *)
Finally ==
  teardown' = IF pc' = "thrown" THEN Append(teardown, "close") ELSE teardown

(* chromium.launch(), browser.newContext() and context.newPage(): they      *)
(* come before the try, so no finally runs when one of them rejects         *)
Launch ==
  /\ pc = "launch"
  /\ \E failed \in {"", "launch", "context"} :
       /\ pc' = IF failed = "" THEN "setup" ELSE "thrown"
       /\ thrownBy' = failed
  /\ UNCHANGED <<optVars, logVars, auxVars, enhVars, mtVars, elapsed,
                 visitedPages, contentItems, stack>>

(* mcpClient.getTools() and the construction of the agent *)
Setup ==
  /\ pc = "setup"
  /\ \E ok \in BOOLEAN :
       IF ok
         THEN /\ pc' = (CASE variant = "enhanced"  -> "loop"
                          [] variant = "multiturn" -> "m_nav"
                          [] variant = "standard"  -> "s_call"
                          [] variant = "direct"    -> "d_nav"
                          [] OTHER                 -> "mini_nav1")
              /\ stack' = IF variant = "standard"
                            THEN <<[url |-> SeedUrl, links |-> <<>>]>>
                            ELSE stack
              /\ thrownBy' = thrownBy
         ELSE /\ pc' = "thrown"
              /\ thrownBy' = "setup"
              /\ stack' = stack
  /\ Finally
  /\ UNCHANGED <<optVars, outstanding, analysedPages, auxVars, enhVars, mtVars, elapsed, visitedPages, contentItems>>

----------------------------------------------------------------------------
(* scanWebsiteWithEnhancedMcp *)

(* while-condition of the crawl loop *)
CrawlCondition_NoTimeout ==
  /\ Len(pagesToVisit) > 0
  /\ pagesAnalyzed < maxPages

CrawlCondition ==
  /\ Len(pagesToVisit) > 0
  /\ pagesAnalyzed < maxPages
  /\ elapsed < timeout

(* "Skip if we've already visited this page or exceeded max depth" *)
SkipEntry_AnyDepth(entry) == Includes(visitedPages, entry.url)

SkipEntry_Revisit(entry) == entry.depth > maxDepth

SkipEntry(entry) ==
  Includes(visitedPages, entry.url) \/ entry.depth > maxDepth

Enqueue_Front(queue, entries) == entries \o queue

(* pagesToVisit.push(...): new entries go to the tail of the frontier *)
Enqueue(queue, entries) == queue \o entries

(* pagesToVisit.shift() and the skip test that follows it *)
E_Dequeue ==
  /\ variant = "enhanced" /\ pc = "loop"
  /\ CrawlCondition
  /\ nextPage' = Head(pagesToVisit)
  /\ pagesToVisit' = Tail(pagesToVisit)
  /\ dequeued' = Append(dequeued, Head(pagesToVisit))
  /\ navAttempts' = <<>>
  /\ pc' = IF SkipEntry(Head(pagesToVisit)) THEN "loop" ELSE "nav1"
  /\ result' = NoResult
  /\ UNCHANGED <<optVars, logVars, metadata, engineCalls, submitted, mtVars, elapsed, visitedPages, contentItems,
                 pagesAnalyzed, stack, thrownBy>>

(* "Mark as visited" after a page.goto that succeeded *)
E_MarkVisited ==
  /\ visitedPages' = Append(visitedPages, nextPage.url)
  /\ pagesAnalyzed' = pagesAnalyzed + 1
  /\ pc' = "scroll"

(* page.goto(pageUrl, {waitUntil: "domcontentloaded"}) *)
E_Navigate ==
  /\ variant = "enhanced" /\ pc = "nav1"
  /\ navAttempts' = Append(navAttempts, "domcontentloaded")
  /\ elapsed' \in Later
  /\ \E ok \in BOOLEAN :
       IF ok THEN E_MarkVisited
       ELSE /\ pc' = "nav2"
            /\ UNCHANGED <<visitedPages, pagesAnalyzed>>
  /\ UNCHANGED <<optVars, logVars, auxVars, mtVars, contentItems, pagesToVisit, nextPage,
                 stack, dequeued, thrownBy>>

(* catch (pageError): the page is given up and the loop goes on *)
E_DropPage_Analysed ==
  /\ pc' = "engine"
  /\ UNCHANGED <<visitedPages, pagesAnalyzed>>

E_DropPage ==
  /\ pc' = "loop"
  /\ UNCHANGED <<visitedPages, pagesAnalyzed>>

(* the retry page.goto(pageUrl, {waitUntil: "networkidle"}); when it fails *)
(* too the error is rethrown into the page's catch                         *)
E_NavigateRetry ==
  /\ variant = "enhanced" /\ pc = "nav2"
  /\ navAttempts' = Append(navAttempts, "networkidle")
  /\ elapsed' \in Later
  /\ \E ok \in BOOLEAN :
       IF ok THEN E_MarkVisited ELSE E_DropPage
  /\ UNCHANGED <<optVars, logVars, auxVars, mtVars, contentItems, pagesToVisit, nextPage,
                 stack, dequeued, thrownBy>>

(* screenshots and the forced full-page scroll; a failing page.evaluate is *)
(* caught by the page's catch                                              *)
E_Scroll ==
  /\ variant = "enhanced" /\ pc = "scroll"
  /\ \E ok \in BOOLEAN :
       IF ok
         THEN /\ pc' = "engine"
              /\ outstanding' = outstanding + 1
              /\ analysedPages' = Append(analysedPages, nextPage.url)
         ELSE /\ pc' = "loop"
              /\ UNCHANGED <<outstanding, analysedPages>>
  /\ UNCHANGED <<optVars, teardown, auxVars, enhVars, mtVars, elapsed, visitedPages,
                 contentItems, stack, thrownBy>>

(* URLs of the browser_navigate calls that are pushed on the frontier *)
RECURSIVE NavigateTargets(_, _)
NavigateTargets(calls, visited) ==
  IF calls = <<>> THEN <<>>
  ELSE LET c == Head(calls)
       IN  (IF c.toolName = "browser_navigate" /\ c.url # ""
                /\ ~Includes(visited, c.url)
              THEN <<c.url>> ELSE <<>>)
           \o NavigateTargets(Tail(calls), visited)

HasNavigationEvents(calls) ==
  \E i \in 1..Len(calls) :
     calls[i].toolName \in {"browser_navigate", "browser_click"}

HasErrors(calls) == \E i \in 1..Len(calls) : calls[i].error

(* the agent's response arrived before the per-page timer: tool calls,     *)
(* then content findings.  browserUrl is what page.url() reports.          *)
E_EngineResolve ==
  /\ variant = "enhanced" /\ pc = "engine"
  /\ elapsed' \in Later
  /\ \E text \in Texts, calls \in ToolCallSeqs, browserUrl \in Urls :
       LET pageUrl == nextPage.url
           depth   == nextPage.depth
           targets == NavigateTargets(calls, visitedPages)
           queued  == Enqueue(pagesToVisit,
                        [i \in 1..Len(targets) |->
                           [url |-> targets[i], depth |-> depth + 1]])
           landed  == HasNavigationEvents(calls) /\ browserUrl # pageUrl
                        /\ ~Includes(visitedPages, browserUrl)
       IN  /\ result' = Result(text, calls)
           /\ IF HasErrors(calls)
             THEN /\ contentItems' =
                       WithErrorItem(contentItems, pageUrl, "high")
                  /\ UNCHANGED <<visitedPages, pagesToVisit>>
             ELSE /\ visitedPages' = IF landed
                                       THEN Append(visitedPages, browserUrl)
                                       ELSE visitedPages
                  /\ pagesToVisit' =
                       IF landed /\ depth < maxDepth
                         THEN Enqueue(queued, <<[url |-> browserUrl,
                                                 depth |-> depth + 1]>>)
                         ELSE queued
                  /\ contentItems' =
                       contentItems \o EnhancedFindings(text, pageUrl)
  /\ pc' = "loop"
  /\ outstanding' = outstanding - 1
  /\ UNCHANGED <<optVars, analysedPages, teardown, metadata, engineCalls, submitted, mtVars,
                 pagesAnalyzed, nextPage, navAttempts, stack, dequeued,
                 thrownBy>>

(* the per-page timer won the race and the call stays pending, or            *)
(* agent.generate rejected                                                  *)
E_EngineTimeout ==
  /\ variant = "enhanced" /\ pc = "engine"
  /\ elapsed' \in Later
  /\ \E rejected \in BOOLEAN :
       /\ contentItems' =
            Append(contentItems,
                   AnalysisErrorItem(nextPage.url,
                                     IF rejected THEN "rejected"
                                     ELSE "timed out"))
       /\ outstanding' = IF rejected THEN outstanding - 1 ELSE outstanding
  /\ pc' = "loop"
  /\ UNCHANGED <<optVars, analysedPages, teardown, auxVars, enhVars, mtVars, visitedPages, stack, thrownBy>>

(* a call the timer abandoned settles later; nothing awaits its outcome *)
E_AbandonedSettles ==
  /\ variant = "enhanced" /\ pc \notin {"done", "thrown"}
  /\ outstanding > (IF pc = "engine" THEN 1 ELSE 0)
  /\ outstanding' = outstanding - 1
  /\ UNCHANGED <<optVars, auxVars, enhVars, mtVars, pc, elapsed, visitedPages,
                 contentItems, stack, thrownBy, analysedPages, teardown>>

LoopExit_OnlyWhenEmpty == Len(pagesToVisit) = 0

(* the while-condition is false: the loop is left *)
LoopExit == ~CrawlCondition

(* the loop has ended: fallback record, metadata, return *)
E_Finish ==
  /\ variant = "enhanced" /\ pc = "loop"
  /\ LoopExit
  /\ contentItems' = IF Len(contentItems) = 0
                       THEN <<FeedbackItem(SeedUrl)>> ELSE contentItems
  /\ metadata' = Metadata(visitedPages, contentItems')
  /\ result' = NoResult
  /\ pc' = "done"
  /\ teardown' = teardown \o <<"disconnect", "close">>
  /\ UNCHANGED <<optVars, outstanding, analysedPages, engineCalls, submitted, enhVars, mtVars, elapsed, visitedPages, stack,
                 thrownBy>>

----------------------------------------------------------------------------
(* scanWebsiteWithMcp, multi-turn version *)

Turn(role, content) == [role |-> role, content |-> content]

InitialPrompt  == <<Tok("prompt")>>
ContinuePrompt == <<Tok("continue")>>
WrapUpPrompt   == <<Tok("wrapup")>>

(* page.goto(url) of the starting URL; a failure is rethrown *)
M_InitialNavigate ==
  /\ variant = "multiturn" /\ pc = "m_nav"
  /\ elapsed' \in Later
  /\ \E ok \in BOOLEAN :
       IF ok
         THEN /\ visitedPages' = Append(visitedPages, SeedUrl)
              /\ currentUrl' = SeedUrl
              /\ conversationHistory' =
                   Append(conversationHistory, Turn("user", InitialPrompt))
              /\ pc' = "m_loop"
              /\ thrownBy' = thrownBy
         ELSE /\ pc' = "thrown"
              /\ thrownBy' = "initial navigation"
              /\ UNCHANGED <<visitedPages, currentUrl, conversationHistory>>
  /\ Finally
  /\ UNCHANGED <<optVars, outstanding, analysedPages, auxVars, enhVars, contentItems, turnCount,
                 explorationComplete, optimizationOpportunities, stack>>

(* the prompt pushed when the filter leaves no turn at all *)
ResetPrompt == <<Tok("reset")>>

(* validConversation: the turns with a role and non-blank content, or one
   fresh user prompt when none is left *)
ValidConversation(history) ==
  LET valid == SelectSeq(history,
                 LAMBDA msg : msg.role # "" /\ ~IsBlank(msg.content))
  IN  IF valid = <<>> THEN <<Turn("user", ResetPrompt)>> ELSE valid

(* head of the exploration loop: count the turn, test the time budget, then
   build validConversation and call agent.generate with it *)
M_TurnStart ==
  /\ variant = "multiturn" /\ pc = "m_loop"
  /\ ~explorationComplete /\ turnCount < MAX_TURNS
  /\ turnCount' = turnCount + 1
  /\ result' = NoResult
  /\ IF elapsed > MAX_EXECUTION_TIME
       THEN /\ explorationComplete' = TRUE /\ pc' = "m_loop"
            /\ UNCHANGED <<engineCalls, submitted>>
       ELSE /\ explorationComplete' = explorationComplete /\ pc' = "m_engine"
            /\ engineCalls' = engineCalls + 1
            /\ submitted' = ValidConversation(conversationHistory)
  /\ UNCHANGED <<optVars, logVars, metadata, enhVars, elapsed, visitedPages,
                 contentItems, conversationHistory, currentUrl,
                 optimizationOpportunities, stack, thrownBy>>

(* target of the last browser_navigate call, "" if there is none *)
LastNavigateUrl(calls) ==
  LET navs == SelectSeq(calls, LAMBDA c : c.toolName = "browser_navigate")
  IN  IF navs = <<>> THEN "" ELSE navs[Len(navs)].url

ShouldStop_Late(count, found) ==
  count > MAX_TURNS \/ found >= EnoughOpportunities

(* the decision after a successful turn: the turn limit first, then the
   number of opportunities found so far *)
ShouldStop(count, found) ==
  count >= MAX_TURNS \/ found >= EnoughOpportunities

NextHistory_Reset(history, text, pages) ==
  <<Turn("assistant", text),
    Turn("user", IF pages < 3 THEN ContinuePrompt ELSE WrapUpPrompt)>>

NextHistory_OtherText(history, text, pages) ==
  history \o
    <<Turn("assistant", T_MANY),
      Turn("user", IF pages < 3 THEN ContinuePrompt ELSE WrapUpPrompt)>>

NextHistory_AssistantOnly(history, text, pages) ==
  Append(history, Turn("assistant", text))

(* the two pushes of a continuing turn: the assistant's text, then the next
   user prompt, chosen by the number of pages visited *)
NextHistory(history, text, pages) ==
  history \o
    <<Turn("assistant", text),
      Turn("user", IF pages < 3 THEN ContinuePrompt ELSE WrapUpPrompt)>>

(* the responses a turn of the exploration can get *)
TurnTexts == Texts \cup {T_MANY}

(* agent.generate(validConversation) resolved *)
M_EngineResolve ==
  /\ variant = "multiturn" /\ pc = "m_engine"
  /\ elapsed' \in Later
  /\ \E text \in TurnTexts, calls \in ToolCallSeqs :
       /\ result' = Result(text, calls)
       /\ IF IsBlank(text)
            THEN /\ explorationComplete' = TRUE
                 /\ UNCHANGED <<visitedPages, currentUrl, conversationHistory,
                                optimizationOpportunities>>
            ELSE LET target == LastNavigateUrl(calls)
                     here   == IF target # "" THEN target ELSE currentUrl
                     seen   == IF target # "" /\ ~Includes(visitedPages, target)
                                 THEN Append(visitedPages, target)
                                 ELSE visitedPages
                     found  == BackfillUrl(extractJsonFromResponse(text), here)
                     all    == optimizationOpportunities \o found
                     stop   == ShouldStop(turnCount, Len(all))
                 IN  /\ currentUrl' = here
                     /\ visitedPages' = seen
                     /\ optimizationOpportunities' = all
                     /\ explorationComplete' = (stop \/ explorationComplete)
                     /\ conversationHistory' =
                          IF stop THEN conversationHistory
                          ELSE NextHistory(conversationHistory, text, Len(seen))
  /\ pc' = "m_loop"
  /\ UNCHANGED <<optVars, logVars, metadata, engineCalls, submitted, enhVars,
                 contentItems, turnCount, stack, thrownBy>>

(* agent.generate rejected: the turn's catch logs it and the loop goes on *)
M_EngineReject ==
  /\ variant = "multiturn" /\ pc = "m_engine"
  /\ elapsed' \in Later
  /\ pc' = "m_loop"
  /\ UNCHANGED <<optVars, logVars, auxVars, enhVars, mtVars, visitedPages, contentItems, stack,
                 thrownBy>>

(* records found by running extractJsonFromResponse over the assistant turns *)
RECURSIVE HistoryItems(_)
HistoryItems(history) ==
  IF history = <<>> THEN <<>>
  ELSE (IF Head(history).role = "assistant"
          THEN extractJsonFromResponse(Head(history).content) ELSE <<>>)
       \o HistoryItems(Tail(history))

(* "Ensure all items have required fields" *)
FillDefaults(items) ==
  [i \in 1..Len(items) |->
     [items[i] EXCEPT
        !.importance = IF @ = "" THEN "medium" ELSE @,
        !.optimizationPotential = IF @ = "" THEN "medium" ELSE @,
        !.type = IF @ = "" THEN "text" ELSE @,
        !.location = IF @ = "" THEN "page" ELSE @]]

(* after the loop: collect, re-scan the history if nothing was found,      *)
(* fill defaults, return                                                   *)
M_Finish ==
  /\ variant = "multiturn" /\ pc = "m_loop"
  /\ explorationComplete \/ turnCount >= MAX_TURNS
  /\ contentItems' =
       FillDefaults(IF Len(optimizationOpportunities) = 0
                      THEN HistoryItems(conversationHistory)
                      ELSE contentItems \o optimizationOpportunities)
  /\ metadata' = Metadata(visitedPages, contentItems')
  /\ result' = NoResult
  /\ pc' = "done"
  /\ teardown' = teardown \o <<"disconnect", "close">>
  /\ UNCHANGED <<optVars, outstanding, analysedPages, engineCalls, submitted, enhVars, mtVars, elapsed, visitedPages, stack,
                 thrownBy>>

----------------------------------------------------------------------------
(* scanWebsite / scanPage (recursive) *)

(* results of the extract_content tool calls of one response *)
ExtractResults ==
  {<<>>, <<Item("", "heading", "Welcome", "hero", "high", "high")>>}

(* result of the first get_page_links tool call of one response *)
LinkResults ==
  {<<>>, <<UrlB>>, <<UrlB, UrlX>>, <<SeedUrl, UrlB>>, <<UrlB, UrlB>>}

Frame(u) == [url |-> u, links |-> <<>>]

(* return from the innermost scanPage call *)
S_Return ==
  /\ stack' = SubSeq(stack, 1, Len(stack) - 1)
  /\ pc' = IF Len(stack) = 1 THEN "s_finish" ELSE "s_links"

(* entry of scanPage: the skip test and visitedPages.push(url) *)
S_Enter ==
  /\ variant = "standard" /\ pc = "s_call"
  /\ LET url == stack[Len(stack)].url
     IN  IF Includes(visitedPages, url) \/ Len(visitedPages) >= maxPages
           THEN S_Return /\ visitedPages' = visitedPages
           ELSE /\ visitedPages' = Append(visitedPages, url)
                /\ pc' = "s_engine"
                /\ stack' = stack
  /\ UNCHANGED <<optVars, logVars, auxVars, enhVars, mtVars, elapsed, contentItems, thrownBy>>

(* links.filter(unvisited).slice(0, maxPages - visitedPages.length) *)
UnvisitedLinks(links) ==
  LET fresh == SelectSeq(links, LAMBDA l : ~Includes(visitedPages, l))
      room  == maxPages - Len(visitedPages)
  IN  SubSeq(fresh, 1, IF Len(fresh) < room THEN Len(fresh) ELSE room)

(* agent.generate resolved: extracted content, then the links to follow *)
S_EngineResolve ==
  /\ variant = "standard" /\ pc = "s_engine"
  /\ elapsed' \in Later
  /\ \E got \in ExtractResults, links \in LinkResults :
       LET url == stack[Len(stack)].url
       IN  /\ contentItems' = contentItems \o BackfillUrl(got, url)
           /\ stack' = [stack EXCEPT ![Len(stack)].links =
                          IF Len(visitedPages) < maxPages
                            THEN UnvisitedLinks(links) ELSE <<>>]
  /\ pc' = "s_links"
  /\ UNCHANGED <<optVars, logVars, auxVars, enhVars, mtVars, visitedPages, thrownBy>>

(* agent.generate rejected: scanPage logs it and returns *)
S_EngineReject ==
  /\ variant = "standard" /\ pc = "s_engine"
  /\ elapsed' \in Later
  /\ S_Return
  /\ UNCHANGED <<optVars, logVars, auxVars, enhVars, mtVars, visitedPages, contentItems,
                 thrownBy>>

(* one iteration of "for (const link of unvisitedLinks)" *)
S_NextLink ==
  /\ variant = "standard" /\ pc = "s_links"
  /\ LET top == stack[Len(stack)]
     IN  IF top.links = <<>> THEN S_Return
         ELSE LET rest == [stack EXCEPT ![Len(stack)].links = Tail(top.links)]
              IN  IF Len(visitedPages) < maxPages
                    THEN /\ stack' = Append(rest, Frame(Head(top.links)))
                         /\ pc' = "s_call"
                    ELSE /\ stack' = rest
                         /\ pc' = "s_links"
  /\ UNCHANGED <<optVars, logVars, auxVars, enhVars, mtVars, elapsed, visitedPages,
                 contentItems, thrownBy>>

(* scanWebsite after scanPage returned: metadata, return *)
S_Finish ==
  /\ variant = "standard" /\ pc = "s_finish"
  /\ metadata' = Metadata(visitedPages, contentItems)
  /\ pc' = "done"
  /\ teardown' = Append(teardown, "close")
  /\ UNCHANGED <<optVars, outstanding, analysedPages, result, engineCalls, submitted, enhVars, mtVars, elapsed, visitedPages,
                 contentItems, stack, thrownBy>>

----------------------------------------------------------------------------
(* scanWebsiteMini *)

(* page.goto with "domcontentloaded" *)
Mini_Navigate ==
  /\ variant = "mini" /\ pc = "mini_nav1"
  /\ navAttempts' = Append(navAttempts, "domcontentloaded")
  /\ elapsed' \in Later
  /\ \E ok \in BOOLEAN : pc' = IF ok THEN "mini_engine" ELSE "mini_nav2"
  /\ UNCHANGED <<optVars, logVars, auxVars, mtVars, visitedPages, contentItems, pagesToVisit,
                 pagesAnalyzed, nextPage, stack, dequeued, thrownBy>>

(* the retry with "networkidle" is not guarded: its failure ends the scan *)
Mini_NavigateRetry ==
  /\ variant = "mini" /\ pc = "mini_nav2"
  /\ navAttempts' = Append(navAttempts, "networkidle")
  /\ elapsed' \in Later
  /\ \E ok \in BOOLEAN :
       IF ok THEN pc' = "mini_engine" /\ thrownBy' = thrownBy
       ELSE pc' = "thrown" /\ thrownBy' = "navigation"
  /\ Finally
  /\ UNCHANGED <<optVars, outstanding, analysedPages, auxVars, mtVars, visitedPages, contentItems, pagesToVisit,
                 pagesAnalyzed, nextPage, stack, dequeued>>

(* line-by-line extraction of the mini scanner: a numbered line starts a   *)
(* record; "Headline" matches none of the type patterns                    *)
MiniTextItems(text, url) ==
  LET heads == SelectSeq(text, LAMBDA t : t.k = "numhead")
  IN  [i \in 1..Len(heads) |->
         Item(url, "unknown", "snippet", "page", "medium", "medium")]

(* "Process agent response" of the mini scanner *)
MiniFindings(text, url) ==
  LET body  == CodeBlockBody(text)
      close == MatchingClose(text, 1)
      raw   == IF text[1].k = "lbr" /\ close # 0
                 THEN SubSeq(text, 1, close) ELSE <<>>
  IN  IF text = <<>> THEN <<>>
      ELSE IF HasCodeBlock(text)
        THEN IF ParsesAsArray(body) THEN ParsedItems(body) ELSE <<>>
      ELSE IF HasArrayStart(text)
        THEN IF ParsesAsArray(raw) THEN ParsedItems(raw) ELSE <<>>
      ELSE MiniTextItems(text, url)

(* the agent's response arrived before the timer: extract, fall back, return *)
Mini_EngineResolve ==
  /\ variant = "mini" /\ pc = "mini_engine"
  /\ elapsed' \in Later
  /\ \E text \in Texts :
       LET opportunities == MiniFindings(text, SeedUrl)
       IN  contentItems' = IF Len(opportunities) = 0
                             THEN <<FeedbackItem(SeedUrl)>>
                             ELSE opportunities
  /\ metadata' = Metadata(visitedPages, contentItems')
  /\ pc' = "done"
  /\ teardown' = teardown \o <<"disconnect", "close">>
  /\ UNCHANGED <<optVars, outstanding, analysedPages, result, engineCalls, submitted, enhVars, mtVars, visitedPages, stack, thrownBy>>

(* the timer won the race, or agent.generate rejected: the error is rethrown *)
Mini_EngineTimeout ==
  /\ variant = "mini" /\ pc = "mini_engine"
  /\ elapsed' \in Later
  /\ pc' = "thrown"
  /\ thrownBy' = "analysis"
  /\ Finally
  /\ UNCHANGED <<optVars, outstanding, analysedPages, auxVars, enhVars, mtVars, visitedPages, contentItems, stack>>

----------------------------------------------------------------------------
(* scanWebsiteWithDirectMcp *)

(* page.goto(url, domcontentloaded): there is no retry, a failure is rethrown *)
D_Navigate ==
  /\ variant = "direct" /\ pc = "d_nav"
  /\ navAttempts' = Append(navAttempts, "domcontentloaded")
  /\ elapsed' \in Later
  /\ \E ok \in BOOLEAN :
       IF ok THEN pc' = "d_engine" /\ thrownBy' = thrownBy
       ELSE pc' = "thrown" /\ thrownBy' = "navigation"
  /\ Finally
  /\ UNCHANGED <<optVars, outstanding, analysedPages, auxVars, mtVars, visitedPages, contentItems,
                 pagesToVisit, pagesAnalyzed, nextPage, stack, dequeued>>

(* positions where text.split(/\n\s*\d+\.\s+/) cuts: a numbered line that   *)
(* has a line before it                                                     *)
SectionStarts(text) == {i \in 2..Len(text) : text[i].k = "numhead"}

(* the sections of the split, each from its first token to the next cut *)
Sections(text) ==
  LET cuts  == {1} \cup SectionStarts(text)
      n     == Cardinality(cuts)
      RECURSIVE nth(_)
      nth(j) == IF j = 1 THEN 1
                ELSE Min({c \in cuts : c > nth(j - 1)})
  IN  [j \in 1..n |->
         SubSeq(text, nth(j), IF j = n THEN Len(text) ELSE nth(j + 1) - 1)]

(* section.length < 10 after trim *)
IsShortSection(section) ==
  \A i \in 1..Len(section) : section[i].k \in {"short", "ws"}

(* the record pushed for one section: "heading" when it mentions a headline, *)
(* then "cta", else "text"                                                  *)
SectionItem(section, url) ==
  Item(url,
       IF \E i \in 1..Len(section) : section[i].k = "numhead" THEN "heading"
       ELSE IF \E i \in 1..Len(section) :
                 section[i].k = "obj" /\ section[i].v.type = "cta" THEN "cta"
       ELSE "text",
       "snippet", "page", "medium", "medium")

(* "extract insights directly": only when the split gives several sections *)
DirectTextItems(text, url) ==
  LET sections == Sections(text)
      kept     == SelectSeq(sections, LAMBDA sec : ~IsShortSection(sec))
  IN  IF Len(sections) > 1
        THEN [i \in 1..Len(kept) |-> SectionItem(kept[i], url)]
        ELSE <<>>

(* "Process results" of the direct scanner: a code block with a body, else   *)
(* a raw array counted from its own start; text sections when both gave     *)
(* no record                                                                *)
DirectFindings(text, url) ==
  LET body  == CodeBlockBody(text)
      start == Min(ArrayStarts(text))
      close == MatchingClose(text, start)
      raw   == IF close = 0 THEN <<>> ELSE SubSeq(text, start, close)
      json  == IF HasCodeBlock(text) /\ ~IsBlank(body)
                 THEN IF ParsesAsArray(body) THEN ParsedItems(body) ELSE <<>>
               ELSE IF HasArrayStart(text) /\ ParsesAsArray(raw)
                 THEN ParsedItems(raw)
               ELSE <<>>
  IN  IF text = <<>> THEN <<>>
      ELSE IF Len(json) = 0 THEN DirectTextItems(text, url)
      ELSE json

(* agent.generate resolved: extract, fall back, disconnect, return *)
D_EngineResolve ==
  /\ variant = "direct" /\ pc = "d_engine"
  /\ elapsed' \in Later
  /\ \E text \in Texts \cup {T_NUMHEAD_FIRST} :
       LET opportunities == DirectFindings(text, SeedUrl)
       IN  contentItems' = IF Len(opportunities) = 0
                             THEN <<FeedbackItem(SeedUrl)>>
                             ELSE opportunities
  /\ metadata' = Metadata(visitedPages, contentItems')
  /\ pc' = "done"
  /\ teardown' = teardown \o <<"disconnect", "close">>
  /\ UNCHANGED <<optVars, outstanding, analysedPages, result, engineCalls, submitted, enhVars, mtVars,
                 visitedPages, stack, thrownBy>>

(* agent.generate rejected: there is no timer and no catch around the call, *)
(* the outer catch rethrows                                                 *)
D_EngineReject ==
  /\ variant = "direct" /\ pc = "d_engine"
  /\ elapsed' \in Later
  /\ pc' = "thrown"
  /\ thrownBy' = "analysis"
  /\ Finally
  /\ UNCHANGED <<optVars, outstanding, analysedPages, auxVars, enhVars, mtVars, visitedPages,
                 contentItems, stack>>

----------------------------------------------------------------------------
Next ==
  \/ Launch \/ Setup
  \/ E_Dequeue \/ E_Navigate \/ E_NavigateRetry \/ E_Scroll
  \/ E_EngineResolve \/ E_EngineTimeout \/ E_AbandonedSettles \/ E_Finish
  \/ M_InitialNavigate \/ M_TurnStart \/ M_EngineResolve \/ M_EngineReject
  \/ M_Finish
  \/ S_Enter \/ S_EngineResolve \/ S_EngineReject \/ S_NextLink \/ S_Finish
  \/ Mini_Navigate \/ Mini_NavigateRetry \/ Mini_EngineResolve
  \/ Mini_EngineTimeout
  \/ D_Navigate \/ D_EngineResolve \/ D_EngineReject

Spec == Init /\ [][Next]_vars

----------------------------------------------------------------------------
(* The enhanced scanner on its own, with room for one page more than Spec   *)
(* explores: a page can follow a page whose analysis timed out only from    *)
(* the third page on.                                                       *)

PendingPages == MaxPagesBound + 1

InitPending ==
  \E depth \in 0..MaxDepthBound : ScanStart("enhanced", PendingPages, depth)

NextEnhanced ==
  \/ Launch \/ Setup
  \/ E_Dequeue \/ E_Navigate \/ E_NavigateRetry \/ E_Scroll
  \/ E_EngineResolve \/ E_EngineTimeout \/ E_AbandonedSettles \/ E_Finish

SpecPending == InitPending /\ [][NextEnhanced]_vars

(* The enhanced scanner under the assumption that every awaited call        *)
(* (launch, goto, evaluate, the race of agent.generate with its timer)      *)
(* returns: the sequential code then always takes its next step.  A call    *)
(* the timer abandoned is awaited by nobody and need not ever settle.       *)
InitCrawl == ScanStart("enhanced", MaxPagesBound, MaxDepthBound)

CrawlStep ==
  \/ Launch \/ Setup
  \/ E_Dequeue \/ E_Navigate \/ E_NavigateRetry \/ E_Scroll
  \/ E_EngineResolve \/ E_EngineTimeout \/ E_Finish

SpecCrawl == InitCrawl /\ [][NextEnhanced]_vars /\ WF_vars(CrawlStep)

----------------------------------------------------------------------------
(* The extraction functions on their own: a response text is drawn from a   *)
(* bounded set and each scanner's extraction is applied to it once.         *)

OtherItem == Item(SeedUrl, "heading", "Welcome", "header", "medium", "medium")

(* a record without url: the extractors that default-fill give it one *)
NoUrlItem == Item("", "form", "Email", "footer", "low", "high")

RECURSIVE SeqsUpTo(_, _)
SeqsUpTo(S, n) ==
  IF n = 0 THEN {<<>>}
  ELSE LET shorter == SeqsUpTo(S, n - 1)
       IN  shorter \cup {Append(q, x) : q \in shorter, x \in S}

RecordLists ==
  SeqsUpTo({FullItem, OtherItem, NoUrlItem, BracketItem}, MaxRecords)

(* ```json [ r1, ..., rN ] ``` *)
FencedArray(records) ==
  <<Tok("fence"), Tok("lbr")>> \o
  [i \in 1..Len(records) |-> Obj(records[i])] \o
  <<Tok("rbr"), Tok("fence")>>

Prefixes == {<<>>, <<Tok("prose")>>, <<Tok("numhead")>>,
             <<Tok("prose"), Tok("numhead")>>}

Suffixes == {<<>>, <<Tok("prose")>>, <<Tok("numhead")>>}

(* [ r1, ..., rN ] outside any fence *)
RawArray(records) ==
  <<Tok("lbr")>> \o [i \in 1..Len(records) |-> Obj(records[i])]
                \o <<Tok("rbr")>>

(* a fenced block whose body is not JSON *)
BadFence == <<Tok("fence"), Tok("junk"), Tok("fence")>>

Blocks ==
  {<<>>, BadFence}
    \cup {FencedArray(r) : r \in RecordLists}
    \cup {RawArray(r) : r \in RecordLists \ {<<>>}}
    \cup {BadFence \o RawArray(r) : r \in RecordLists \ {<<>>}}

Responses ==
  {pre \o blk \o suf : pre \in Prefixes, blk \in Blocks, suf \in Suffixes}

InitExtraction ==
  /\ responseText \in Responses
  /\ extracted = <<>>
  /\ extractor = ""
  /\ variant = "" /\ maxPages = 1 /\ maxDepth = 0
  /\ pc = "extract"
  /\ elapsed = 0
  /\ visitedPages = <<>>
  /\ contentItems = <<>>
  /\ pagesToVisit = <<>>
  /\ pagesAnalyzed = 0
  /\ nextPage = [url |-> "", depth |-> 0]
  /\ navAttempts = <<>>
  /\ conversationHistory = <<>>
  /\ turnCount = 0
  /\ explorationComplete = FALSE
  /\ currentUrl = ""
  /\ optimizationOpportunities = <<>>
  /\ stack = <<>>
  /\ dequeued = <<>>
  /\ thrownBy = ""
  /\ metadata = NoMetadata
  /\ result = NoResult
  /\ engineCalls = 0
  /\ submitted = <<>>
  /\ outstanding = 0
  /\ analysedPages = <<>>
  /\ teardown = <<>>

scanVars == <<variant, maxPages, maxDepth, pc, elapsed, visitedPages,
              contentItems, enhVars, mtVars, stack, thrownBy, auxVars,
              logVars>>

(* extractJsonFromResponse(result.text) of the multi-turn scanner *)
X_MultiTurn ==
  /\ extractor = ""
  /\ extractor' = "multiturn"
  /\ extracted' = extractJsonFromResponse(responseText)
  /\ UNCHANGED <<responseText, scanVars>>

(* "Process content findings" of the enhanced scanner *)
X_Enhanced ==
  /\ extractor = ""
  /\ extractor' = "enhanced"
  /\ extracted' = EnhancedFindings(responseText, SeedUrl)
  /\ UNCHANGED <<responseText, scanVars>>

(* "Process results" of the direct scanner *)
X_Direct ==
  /\ extractor = ""
  /\ extractor' = "direct"
  /\ extracted' = DirectFindings(responseText, SeedUrl)
  /\ UNCHANGED <<responseText, scanVars>>

(* "Process agent response" of the mini scanner *)
X_Mini ==
  /\ extractor = ""
  /\ extractor' = "mini"
  /\ extracted' = MiniFindings(responseText, SeedUrl)
  /\ UNCHANGED <<responseText, scanVars>>

NextExtraction == X_MultiTurn \/ X_Enhanced \/ X_Direct \/ X_Mini

SpecExtraction == InitExtraction /\ [][NextExtraction]_vars

----------------------------------------------------------------------------
(* Properties *)

Returned == pc = "done"

AttemptOrder == <<"domcontentloaded", "networkidle">>

(* C1: in every state of an enhanced scan the number of URLs in           *)
(* visitedPages (scannedPages) is at most maxPages.                        *)
C1_VisitedWithinMaxPages ==
  variant = "enhanced" => Len(visitedPages) <= maxPages

(* C2: with maxPages = 1 and the seed page loaded, the enhanced scan       *)
(* dequeues nothing but the seed entry and returns scannedPages equal to   *)
(* the seed URL alone.                                                     *)
C2_SinglePageScan ==
  (variant = "enhanced" /\ maxPages = 1 /\ pagesAnalyzed = 1 /\ Returned)
    => /\ visitedPages = <<SeedUrl>>
       /\ dequeued = <<[url |-> SeedUrl, depth |-> 0]>>

C4_NoDuplicateScannedPages == NoDuplicates(visitedPages)

(* the frontier handed out the same URL twice and two pages are recorded   *)
C4_Witness ==
  /\ variant = "enhanced"
  /\ Len(visitedPages) >= 2
  /\ \E i, j \in 1..Len(dequeued) : i < j /\ dequeued[i].url = dequeued[j].url

(* C5: a scan that returns never returns an empty content list (enhanced   *)
(* and multi-turn scanner).                                                *)
C5_ContentNeverEmpty ==
  (variant \in {"enhanced", "multiturn"} /\ Returned) => Len(contentItems) >= 1

(* C6: every record of a returned multi-turn result has a non-empty url,   *)
(* type and location, and importance and optimizationPotential within      *)
(* high / medium / low.                                                    *)
C6_RecordsWellFormed ==
  (variant = "multiturn" /\ Returned)
    => \A i \in 1..Len(contentItems) :
         /\ contentItems[i].url # ""
         /\ contentItems[i].type # ""
         /\ contentItems[i].location # ""
         /\ contentItems[i].importance \in Levels
         /\ contentItems[i].optimizationPotential \in Levels

(* C7: a dequeued URL is navigated to at most twice, "networkidle" only    *)
(* after "domcontentloaded" failed; when both fail the page is dropped:    *)
(* visitedPages, pagesAnalyzed and contentItems are left alone, the        *)
(* engine is not called for it, the loop goes on, nothing is thrown.       *)
C7_NavigationFailureDropsPage ==
  /\ [](variant = "enhanced" =>
          /\ IsPrefix(navAttempts, AttemptOrder)
          /\ (pc \in {"scroll", "engine"} =>
                Includes(visitedPages, nextPage.url))
          /\ (pc = "thrown" => thrownBy \in {"launch", "context", "setup"}))
  /\ [][(variant = "enhanced" /\ pc = "nav2" /\ pc' \notin {"nav2", "scroll"})
          => /\ pc' = "loop"
             /\ visitedPages' = visitedPages
             /\ pagesAnalyzed' = pagesAnalyzed
             /\ contentItems' = contentItems
             /\ thrownBy' = ""]_vars

(* the scan returned after both attempts on its last entry failed, and     *)
(* that URL is not among the scanned pages                                 *)
C7_Witness ==
  /\ variant = "enhanced" /\ Returned
  /\ navAttempts = AttemptOrder
  /\ ~Includes(visitedPages, nextPage.url)
  /\ Len(visitedPages) >= 1

(* C8: a reasoning-engine call that does not resolve in time never aborts  *)
(* the scan: no scan function rejects because of the analysis step.        *)
C8_TimeoutIsPageLocal == thrownBy # "analysis"

(* C9: the aggregated records only grow by appending: every step leaves    *)
(* contentItems and optimizationOpportunities a prefix of their new value, *)
(* and the multi-turn result keeps every aggregated record, in order.      *)
C9_ContentMonotone ==
  [][/\ IsPrefix(contentItems, contentItems')
     /\ IsPrefix(optimizationOpportunities, optimizationOpportunities')
     /\ (variant = "multiturn" /\ pc' = "done" /\ pc # "done")
          => /\ Len(contentItems') >= Len(optimizationOpportunities)
             /\ \A i \in 1..Len(optimizationOpportunities) :
                  /\ contentItems'[i].content =
                       optimizationOpportunities[i].content
                  /\ contentItems'[i].url = optimizationOpportunities[i].url]_vars

(* a record of an earlier page is still first after a later page's         *)
(* analysis failed                                                         *)
C9_Witness ==
  /\ variant = "enhanced"
  /\ Len(contentItems) >= 2
  /\ contentItems[1].type = "cta"
  /\ contentItems[2].type = "error"

C11_OnlySetupFailuresPropagate ==
  pc = "thrown"
    => thrownBy \in {"launch", "context", "setup", "initial navigation",
                     "navigation"}

(* the records of a record list match what was extracted, field by field,   *)
(* but for fields the record left empty, which the extractor may fill      *)
SameModuloFill(records, items) ==
  /\ Len(items) = Len(records)
  /\ \A i \in 1..Len(records) :
       \A f \in DOMAIN records[i] :
         items[i][f] = records[i][f] \/ records[i][f] = ""

(* C12: a response holding one fenced JSON array of N >= 0 well-formed      *)
(* records yields exactly those N records, in order, whatever prose is      *)
(* around the block (multi-turn, enhanced and direct extraction).           *)
C12_FencedArrayRoundTrip ==
  (extractor \in {"multiturn", "enhanced", "direct"}
     /\ HasCodeBlock(responseText)
     /\ ParsesAsArray(CodeBlockBody(responseText)))
    => SameModuloFill(ParsedItems(CodeBlockBody(responseText)), extracted)

(* C13: a response without JSON that holds a line "1. Headline: ..." yields *)
(* at least one record of type "heading", the line being the first one or  *)
(* not (enhanced and direct extraction).                                    *)
C13_NumberedHeadlineYieldsHeading ==
  (extractor \in {"enhanced", "direct"}
     /\ ~HasCodeBlock(responseText) /\ ~HasArrayStart(responseText)
     /\ \E i \in 1..Len(responseText) : responseText[i].k = "numhead")
    => \E i \in 1..Len(extracted) : extracted[i].type = "heading"


(* C14: a returned result's metadata.pageCount is the length of             *)
(* scannedPages and metadata.contentCount the length of content, the        *)
(* fallback record included; scannedPages and content are only appended     *)
(* to, so they list pages in the order of first visit and records in the    *)
(* order they were produced.                                                *)
C14_CountsAndOrder ==
  [][/\ (pc' = "done" /\ pc # "done")
          => /\ metadata'.pageCount = Len(visitedPages')
             /\ metadata'.contentCount = Len(contentItems')
     /\ pc = "done" => UNCHANGED <<metadata, visitedPages, contentItems>>
     /\ IsPrefix(visitedPages, visitedPages')
     /\ Len(contentItems') >= Len(contentItems)
     /\ \A i \in 1..Len(contentItems) :
          contentItems'[i].content = contentItems[i].content]_vars

(* an enhanced scan returned two pages and the records of both *)
C14_Witness ==
  /\ variant = "enhanced" /\ Returned
  /\ metadata.pageCount = 2 /\ visitedPages = <<SeedUrl, UrlB>>
  /\ pagesAnalyzed = 2
  /\ metadata.contentCount >= 2

(* C15: the multi-turn scanner calls the engine at most MAX_TURNS times,    *)
(* turns whose call throws included; after a turn with a response it stops  *)
(* when turnCount has reached MAX_TURNS, else when the opportunities have   *)
(* reached the threshold, and only otherwise pushes the assistant turn and  *)
(* a new user prompt and goes on.                                           *)
C15_TurnBudgetAndDecision ==
  [][variant = "multiturn"
       => /\ engineCalls' <= turnCount' /\ turnCount' <= MAX_TURNS
          /\ engineCalls' <= engineCalls + 1
          /\ (pc = "m_engine" /\ result'.settled
                /\ \E i \in 1..Len(result'.text) : result'.text[i].k # "ws")
               => IF turnCount >= MAX_TURNS
                       \/ Len(optimizationOpportunities') >= EnoughOpportunities
                    THEN /\ explorationComplete'
                         /\ conversationHistory' = conversationHistory
                    ELSE /\ ~explorationComplete'
                         /\ Len(conversationHistory')
                              = Len(conversationHistory) + 2
                         /\ conversationHistory'[Len(conversationHistory')].role
                              = "user"
                         /\ conversationHistory'[Len(conversationHistory')].content
                              \in {ContinuePrompt, WrapUpPrompt}
          /\ (pc = "m_loop" /\ explorationComplete)
               => engineCalls' = engineCalls]_vars

(* the first turn found enough opportunities: the exploration is complete   *)
(* after one engine call, below the turn limit                              *)
C15_Witness ==
  /\ variant = "multiturn" /\ pc = "m_loop"
  /\ turnCount = 1 /\ turnCount < MAX_TURNS /\ engineCalls = 1
  /\ result.settled
  /\ Len(optimizationOpportunities) >= EnoughOpportunities
  /\ explorationComplete

(* C16: an empty or whitespace-only response ends the multi-turn            *)
(* exploration without an error: the exploration is complete, the engine    *)
(* is not called again, nothing is thrown, and the opportunities of the     *)
(* earlier turns are all in the returned content.                           *)
C16_BlankResponseCompletes ==
  [][variant = "multiturn"
       => /\ (pc = "m_engine" /\ result'.settled
                /\ \A i \in 1..Len(result'.text) : result'.text[i].k = "ws")
               => /\ explorationComplete' /\ pc' = "m_loop"
                  /\ thrownBy' = ""
                  /\ optimizationOpportunities' = optimizationOpportunities
          /\ (pc = "m_loop" /\ explorationComplete)
               => /\ pc' = "done" /\ thrownBy' = ""
                  /\ engineCalls' = engineCalls
                  /\ Len(contentItems') >= Len(optimizationOpportunities)
                  /\ \A i \in 1..Len(optimizationOpportunities) :
                       contentItems'[i].content
                         = optimizationOpportunities[i].content]_vars

(* the second turn's response was whitespace; the scan returned the record  *)
(* of the first turn after two engine calls                                 *)
C16_Witness ==
  /\ variant = "multiturn" /\ Returned
  /\ turnCount = 2 /\ engineCalls = 2
  /\ Len(conversationHistory) = 3
  /\ Len(contentItems) = 1 /\ contentItems[1].content = "Buy now"

(* C17: every history given to agent.generate has at least one turn and no  *)
(* turn with empty or whitespace-only content, and conversationHistory is   *)
(* only appended to.                                                        *)
C17_ValidAppendOnlyHistory ==
  [][variant = "multiturn"
       => /\ IsPrefix(conversationHistory, conversationHistory')
          /\ pc' = "m_engine"
               => /\ Len(submitted') >= 1
                  /\ \A i \in 1..Len(submitted') :
                       \E j \in 1..Len(submitted'[i].content) :
                         submitted'[i].content[j].k # "ws"]_vars

(* the second turn submits the first prompt, the assistant's answer and     *)
(* the continue prompt                                                      *)
C17_Witness ==
  /\ variant = "multiturn" /\ pc = "m_engine"
  /\ turnCount = 2
  /\ Len(submitted) = 3 /\ submitted = conversationHistory
  /\ submitted[2].role = "assistant"


(* C18: after a turn whose tool calls hold browser_navigate calls with a    *)
(* target, the current URL is the target of the last of them, every         *)
(* target is in visitedPages (multi-turn) or in visitedPages or the         *)
(* frontier (enhanced), and the records of the turn have a url; a turn      *)
(* without such a call leaves the current URL alone.                        *)
C18_NavigationTracked ==
  [][LET navs == SelectSeq(result'.toolCalls,
                   LAMBDA c : c.toolName = "browser_navigate" /\ c.url # "")
     IN  /\ (variant = "multiturn" /\ pc = "m_engine" /\ result'.settled
               /\ \E i \in 1..Len(result'.text) : result'.text[i].k # "ws")
              => /\ IF navs = <<>> THEN currentUrl' = currentUrl
                    ELSE /\ currentUrl' = navs[Len(navs)].url
                         /\ \A i \in 1..Len(navs) :
                              Includes(visitedPages', navs[i].url)
                 /\ \A i \in (Len(optimizationOpportunities) + 1)
                               ..Len(optimizationOpportunities') :
                      optimizationOpportunities'[i].url # ""
         /\ (variant = "enhanced" /\ pc = "engine" /\ result'.settled
               /\ ~HasErrors(result'.toolCalls))
              => \A i \in 1..Len(navs) :
                   \/ Includes(visitedPages', navs[i].url)
                   \/ \E j \in 1..Len(pagesToVisit') :
                        pagesToVisit'[j].url = navs[i].url]_vars

(* C19: a URL of another origin than the seed's is never put on the         *)
(* frontier and never gets into scannedPages.                               *)
C19_NoCrossOriginUrl ==
  /\ \A i \in 1..Len(pagesToVisit) : pagesToVisit[i].url # UrlX
  /\ \A i \in 1..Len(visitedPages) : visitedPages[i] # UrlX

(* C20: the frontier of the enhanced scanner never holds two entries with   *)
(* the same URL and never holds a URL that is in visitedPages.              *)
C20_FrontierHoldsFreshUrlsOnce ==
  variant = "enhanced"
    => /\ \A i, j \in 1..Len(pagesToVisit) :
            pagesToVisit[i].url = pagesToVisit[j].url => i = j
       /\ \A i \in 1..Len(pagesToVisit) :
            ~Includes(visitedPages, pagesToVisit[i].url)


(* C21: the frontier of the enhanced scanner is first-in first-out: the     *)
(* entries taken so far followed by the entries still queued only grow at   *)
(* the tail, the depths of the entries taken never decrease, and the loop   *)
(* ends only with the frontier empty or a budget (pages, time) reached.     *)
C21_FifoFrontier ==
  [][variant = "enhanced"
       => /\ IsPrefix(dequeued \o pagesToVisit, dequeued' \o pagesToVisit')
          /\ \A i, j \in 1..Len(dequeued') :
               i < j => dequeued'[i].depth <= dequeued'[j].depth
          /\ (pc = "loop" /\ pc' = "done")
               => \/ Len(pagesToVisit) = 0
                  \/ pagesAnalyzed >= maxPages
                  \/ elapsed >= timeout]_vars

(* two targets were enqueued from the seed page; the one enqueued first     *)
(* was taken first and the other is still queued                            *)
C21_Witness ==
  /\ variant = "enhanced"
  /\ dequeued = <<[url |-> SeedUrl, depth |-> 0], [url |-> UrlB, depth |-> 1]>>
  /\ pagesToVisit = <<[url |-> UrlX, depth |-> 1]>>


(* the raw array of a response: from the first [ that an object follows to  *)
(* the ] that closes it                                                     *)
RawArrayOf(text) ==
  LET start == Min(ArrayStarts(text))
      close == Min({i \in start..Len(text) : text[i].k = "rbr"})
  IN  SubSeq(text, start, close)

HasRawArray(text) ==
  /\ HasArrayStart(text)
  /\ \E i \in Min(ArrayStarts(text))..Len(text) : text[i].k = "rbr"
  /\ ParsesAsArray(RawArrayOf(text))

(* C22: the extraction strategies are a chain in which a failure falls      *)
(* through to the next one: a response whose fenced block is not valid      *)
(* JSON and which also holds a parseable raw array, or numbered findings,   *)
(* still yields records (multi-turn, enhanced and direct extraction).       *)
C22_FailedFenceFallsThrough ==
  (extractor \in {"multiturn", "enhanced", "direct"}
     /\ HasCodeBlock(responseText)
     /\ ~ParsesAsArray(CodeBlockBody(responseText))
     /\ \/ HasRawArray(responseText)
        \/ \E i \in 1..Len(responseText) : responseText[i].k = "numhead")
    => Len(extracted) >= 1

(* C23: a response without a fenced block that holds a JSON array of        *)
(* records, at any offset and with any prose around it, yields the          *)
(* records of that array, also when a string value of a record holds a      *)
(* bracket (multi-turn, enhanced and mini extraction).                      *)
C23_BracketScanFindsArray ==
  (extractor \in {"multiturn", "enhanced", "mini"}
     /\ ~HasCodeBlock(responseText)
     /\ HasRawArray(responseText))
    => SameModuloFill(ParsedItems(RawArrayOf(responseText)), extracted)


(* C24: at every moment of a scan at most one agent.generate call is        *)
(* pending, also after the per-page timer abandoned a call and the crawl    *)
(* went on to the next page.                                                *)
C24_OneEngineCallOutstanding == outstanding <= 1


(* C25: every URL in the scannedPages the enhanced scanner returns was      *)
(* taken from the frontier by the crawl loop and given to agent.generate    *)
(* for an analysis step.                                                    *)
C25_ScannedPagesWereAnalysed ==
  (variant = "enhanced" /\ Returned)
    => \A i \in 1..Len(visitedPages) :
         /\ \E j \in 1..Len(dequeued) : dequeued[j].url = visitedPages[i]
         /\ Includes(analysedPages, visitedPages[i])


(* C26: in the enhanced scanner a page whose analysis times out or rejects  *)
(* adds exactly one record, of type "error" and with the page's URL; none   *)
(* of its tool calls is processed, nothing is put on the frontier, the page *)
(* stays in the visited list and the crawl loop goes on.                    *)
C26_FailedAnalysisStep ==
  /\ variant = "enhanced"
  /\ pc = "engine"
  /\ pc' # "engine"
  /\ ~result'.settled

C26_FailedAnalysisYieldsOneErrorRecord ==
  [][C26_FailedAnalysisStep =>
       /\ Len(contentItems') = Len(contentItems) + 1
       /\ SubSeq(contentItems', 1, Len(contentItems)) = contentItems
       /\ contentItems'[Len(contentItems')].type = "error"
       /\ contentItems'[Len(contentItems')].url = nextPage.url
       /\ pagesToVisit' = pagesToVisit
       /\ visitedPages' = visitedPages
       /\ Includes(visitedPages', nextPage.url)
       /\ pc' = "loop"
       /\ thrownBy' = thrownBy]_vars

(* a page was analysed after the second page's analysis had timed out *)
C26_Witness ==
  /\ variant = "enhanced"
  /\ Len(analysedPages) = 3
  /\ \E i \in 1..Len(contentItems) :
       /\ contentItems[i].type = "error"
       /\ contentItems[i].content = "timed out"
       /\ contentItems[i].url = analysedPages[2]


(* C27: the history the multi-turn scanner submits starts with a user turn, *)
(* alternates strictly between user and assistant and ends with a user      *)
(* turn; the stored history grows by an assistant turn only together with   *)
(* the user turn that follows it, and a turn whose agent.generate throws    *)
(* appends nothing.                                                         *)
C27_Alternates(history) ==
  /\ Len(history) > 0
  /\ history[1].role = "user"
  /\ history[Len(history)].role = "user"
  /\ \A i \in 1..(Len(history) - 1) :
       {history[i].role, history[i + 1].role} = {"user", "assistant"}

C27_GrowsByPairs ==
  (variant = "multiturn" /\ pc = "m_engine") =>
     /\ \/ conversationHistory' = conversationHistory
        \/ /\ Len(conversationHistory') = Len(conversationHistory) + 2
           /\ SubSeq(conversationHistory', 1, Len(conversationHistory))
                = conversationHistory
           /\ conversationHistory'[Len(conversationHistory) + 1].role
                = "assistant"
           /\ conversationHistory'[Len(conversationHistory) + 2].role = "user"
     /\ ~result'.settled => conversationHistory' = conversationHistory

C27_HistoryAlternates ==
  /\ []((variant = "multiturn" /\ engineCalls > 0) => C27_Alternates(submitted))
  /\ [][C27_GrowsByPairs]_vars

(* a second turn was submitted with the first answer and the next prompt *)
C27_Witness ==
  /\ variant = "multiturn" /\ pc = "m_engine"
  /\ Len(submitted) = 3
  /\ submitted[2].role = "assistant"


(* C28: the re-scan of the conversation history at the end of a multi-turn  *)
(* scan, which runs only when no record was collected, never finds a        *)
(* record: whenever no opportunity has been collected, no assistant turn of *)
(* the history holds an extractable record, and the scan returns no record. *)
C28_HistoryRescanAddsNothing ==
  (variant = "multiturn" /\ Len(optimizationOpportunities) = 0) =>
     /\ HistoryItems(conversationHistory) = <<>>
     /\ Returned => contentItems = <<>>

(* the re-scan ran over a history that holds an assistant turn *)
C28_Witness ==
  /\ variant = "multiturn" /\ Returned
  /\ Len(optimizationOpportunities) = 0
  /\ \E i \in 1..Len(conversationHistory) :
       conversationHistory[i].role = "assistant"


(* C29: the crawl loop of the enhanced scanner terminates when every call   *)
(* it awaits returns, and once the loop is left the scan returns a result   *)
(* with at least one record.                                                *)
C29_CrawlLoopTerminates ==
  (variant = "enhanced" /\ pc = "loop")
     ~> (Returned /\ Len(contentItems) > 0
           /\ metadata = Metadata(visitedPages, contentItems))

(* the loop was left on the page budget with entries still on the frontier *)
C29_Witness ==
  /\ variant = "enhanced" /\ Returned
  /\ pagesAnalyzed = maxPages
  /\ Len(pagesToVisit) > 0


(* C30: in the enhanced, multi-turn and direct scanners a browser that was  *)
(* launched is closed exactly once on every way out of the scan, a return   *)
(* or a throw; on the returning path the close comes after the MCP          *)
(* disconnect.                                                              *)
C30_CloseCount ==
  Len(SelectSeq(teardown, LAMBDA step : step = "close"))

C30_BrowserClosedOnce ==
  (variant \in {"enhanced", "multiturn", "direct"}
     /\ pc \in {"done", "thrown"} /\ thrownBy # "launch")
    => /\ C30_CloseCount = 1
       /\ Returned => teardown = <<"disconnect", "close">>

(* the same, for the exits that happen inside the try block *)
C30_ClosedOnceInsideTry ==
  (variant \in {"enhanced", "multiturn", "direct"}
     /\ pc \in {"done", "thrown"} /\ thrownBy \notin {"launch", "context"})
    => /\ C30_CloseCount = 1
       /\ Returned => teardown = <<"disconnect", "close">>

====
